---- MODULE Spec2Model ----
(***************************************************************************)
(* Knowledge retrieval and citation engine of cloudexplain/openbrain.      *)
(*                                                                         *)
(* The module holds twelve specifications over one set of variables:       *)
(*   SpecResize    embedding_utils.pad_or_truncate on bounded vectors      *)
(*   SpecCite      ChatService.process_citations_to_markdown on bounded    *)
(*                 texts and citation maps                                 *)
(*   SpecSearch    EmbeddingService.similarity_search on a bounded corpus  *)
(*   SpecIngest    the ingestion handlers step by step: session, flush,    *)
(*                 embedding calls, commit and rollback                    *)
(*   Spec          the process: startup, committed transactions on the     *)
(*                 store, the re-embed queue and its worker, crash         *)
(*   SpecFair      Spec with a worker task that is always resumed          *)
(*   SpecReembed   LangchainOllamaService.embed and                        *)
(*                 embedding_utils.resize_embedding_and_maybe_reembed      *)
(*   SpecChat      POST /chat: generate_stream over                        *)
(*                 ChatService.generate_response, client disconnect        *)
(*   SpecRetry     AzureOpenAIService._execute_with_retry                  *)
(*   SpecRetryFair SpecRetry with awaited calls that return                *)
(*   SpecChunk     the text splitter, process_uploaded_document,           *)
(*                 update_document_chunks and chunk_chat_conversation      *)
(*   SpecAnswer    ChatService.generate_response up to the system message  *)
(* A specification leaves the variables of the others at their defaults.   *)
(***************************************************************************)
EXTENDS Integers, Sequences, FiniteSets, TLC

VARIABLES
    \* ---- pad_or_truncate
    vec,            \* the caller's vector: [none |-> TRUE] for None, else its values
    target_dim,     \* the requested dimension
    padded,         \* the returned list (<<>> before the call)
    pad_called,     \* TRUE once pad_or_truncate has returned
    \* ---- process_citations_to_markdown
    content,            \* the generated text, a sequence of characters
    citation_mapping,   \* ordinal -> citation entry
    processed,          \* result of the rewrite of content
    processed_twice,    \* result of the rewrite of processed
    cite_pc,            \* "start", "once", "twice"
    \* ---- the relational store (committed rows)
    documents,          \* table documents: set of [id, source_type]
    document_chunks,    \* table document_chunks: set of chunk rows
    document_tags,      \* table document_tags: set of [document_id, tag_id]
    \* ---- similarity_search
    search,             \* the last call: its arguments, branch and result
    \* ---- the re-embed queue (reembed_queue.QUEUE)
    QUEUE,              \* queued entries, in the order they were put
    \* ---- the running process
    next_doc,           \* number of document ids drawn so far (uuid4), plus 1
    next_chunk,         \* number of chunk ids drawn so far (uuid4), plus 1
    req,                \* the ingestion request in flight and its session,
                        \* or how the last handler ended
    worker,             \* the reconciler task: position, item, embedding,
                        \* what it logged about the last item
    started,            \* startup_events has run
    \* ---- single calls
    reembed,            \* a call of embed or of
                        \* resize_embedding_and_maybe_reembed: arguments,
                        \* backend, result
    stream,             \* a chat answer: generator, transport, messages
    retry,              \* a call of AzureOpenAIService._execute_with_retry
    answer,             \* the prompt generate_response builds for a request
    chunker             \* a call of a chunking function and its result

sysVars == <<next_doc, next_chunk, req, worker, started>>
storeVars == <<documents, document_chunks, document_tags>>
citeVars == <<content, citation_mapping, processed, processed_twice, cite_pc>>
resizeVars == <<vec, target_dim, padded, pad_called>>
moreVars == <<retry, answer, chunker>>
callVars == <<reembed, stream, moreVars>>
vars == <<resizeVars, citeVars, storeVars, search, QUEUE, sysVars, callVars>>

Min(a, b) == IF a < b THEN a ELSE b

\* Optional[List[float]]: None, or a list.
NoneVec == [none |-> TRUE, v |-> <<>>]
SomeVec(v) == [none |-> FALSE, v |-> v]

\* Default values of the variables a specification does not use.
CiteIdle ==
    /\ content = <<>>
    /\ citation_mapping = <<>>
    /\ processed = <<>>
    /\ processed_twice = <<>>
    /\ cite_pc = "start"

ResizeIdle ==
    /\ vec = NoneVec
    /\ target_dim = 0
    /\ padded = <<>>
    /\ pad_called = FALSE

StoreIdle ==
    /\ documents = {}
    /\ document_chunks = {}
    /\ document_tags = {}

\* No call of similarity_search yet.
NoSearch ==
    [called |-> FALSE, limit |-> 0, cutoff |-> 0, source_types |-> {},
     tag_ids |-> {}, document_ids |-> {}, distance |-> <<>>,
     fallback |-> FALSE, chunks |-> <<>>]

SearchIdle == search = NoSearch

\* No handler has ended yet.
NoOutcome == [handler |-> "", ok |-> FALSE]

\* No request in flight: a fresh session with nothing pending.
NoRequest == [kind |-> "idle", doc |-> [id |-> 0, source_type |-> ""],
              plan |-> 0, chunks |-> {}, old |-> {}, last |-> NoOutcome]

\* The worker holds no chunk id.
NoItem == 0

NoWorker ==
    [pc |-> "none", priority_value |-> 0, item |-> NoItem, emb |-> <<>>,
     log |-> ""]

\* No call of embed or resize_embedding_and_maybe_reembed has been made.
NoCall == [op |-> "none"]

\* No chat answer has been asked for.
NoStream ==
    [pc |-> "idle", messages |-> <<>>, pending |-> <<>>, fails |-> FALSE,
     response_content |-> <<>>, events |-> <<>>, raised |-> FALSE,
     closed_at |-> "", status_code |-> 0, prior |-> 0, loaded |-> <<>>,
     sent |-> <<>>]

\* _execute_with_retry has not been called.
NoRetry ==
    [pc |-> "idle", max_retries |-> 0, attempt |-> 0, outcomes |-> <<>>,
     delays |-> <<>>]

\* No prompt has been built, no text has been chunked.
NoAnswer == [pc |-> "idle"]
NoChunker == [op |-> "none"]

MoreIdle ==
    /\ retry = NoRetry
    /\ answer = NoAnswer
    /\ chunker = NoChunker

CallIdle ==
    /\ reembed = NoCall
    /\ stream = NoStream
    /\ MoreIdle

SysIdle ==
    /\ next_doc = 1
    /\ next_chunk = 1
    /\ req = NoRequest
    /\ worker = NoWorker
    /\ started = FALSE

(***************************************************************************)
(* embedding_utils.pad_or_truncate                                         *)
(***************************************************************************)
\* Largest vector length and largest target dimension that are tried.
MaxLen == 3
MaxDim == 4
\* Component values of the vectors tried (0 is the padding value 0.0).
VecValues == {0, 1, 2}

\* Sequences over S of length 0..n.
SeqsUpTo(S, n) == UNION {[1..k -> S] : k \in 0..n}

\* Mutant: truncates but never pads.
pad_or_truncate_nopad(v0, d) ==
    LET v == IF v0.none THEN <<>> ELSE v0.v
    IN  IF Len(v) <= d THEN v ELSE SubSeq(v, 1, d)

\* v = vec or []; equal length: v itself; shorter: v + [0.0] * (d - len(v));
\* longer: v[:d].
pad_or_truncate(v0, d) ==
    LET v == IF v0.none THEN <<>> ELSE v0.v
    IN  IF Len(v) = d THEN v
        ELSE IF Len(v) < d THEN v \o [i \in 1..(d - Len(v)) |-> 0]
        ELSE SubSeq(v, 1, d)

InitResize ==
    /\ vec \in {NoneVec} \cup {SomeVec(v) : v \in SeqsUpTo(VecValues, MaxLen)}
    /\ target_dim \in 0..MaxDim
    /\ padded = <<>>
    /\ pad_called = FALSE
    /\ QUEUE = <<>>
    /\ SysIdle
    /\ CallIdle
    /\ CiteIdle
    /\ StoreIdle
    /\ SearchIdle

\* A caller evaluates pad_or_truncate(vec, target_dim).
PadOrTruncate ==
    /\ ~pad_called
    /\ padded' = pad_or_truncate(vec, target_dim)
    /\ pad_called' = TRUE
    /\ UNCHANGED <<vec, target_dim, QUEUE, citeVars, storeVars, search, sysVars,
                   callVars>>

NextResize == PadOrTruncate

SpecResize == InitResize /\ [][NextResize]_vars

\* C6: pad_or_truncate(v, d) returns a list of length exactly d whose first
\* min(len(v), d) values are those of v and whose remaining values are 0.0;
\* the call leaves v as it was and puts nothing on the re-embed queue.
PadResultOK ==
    pad_called =>
        LET v == IF vec.none THEN <<>> ELSE vec.v
        IN  /\ Len(padded) = target_dim
            /\ \A i \in 1..target_dim :
                  padded[i] = IF i <= Len(v) THEN v[i] ELSE 0

PadFrame == (~pad_called /\ pad_called') => (vec' = vec /\ QUEUE' = QUEUE)

C6_PadOrTruncate == []PadResultOK /\ [][PadFrame]_vars

\* C6 witness: pad_or_truncate has returned for a non-empty vector whose
\* length differs from a positive target dimension.
C6_Witness ==
    /\ pad_called
    /\ ~vec.none
    /\ Len(vec.v) # target_dim
    /\ Len(vec.v) > 0
    /\ target_dim > 0

(***************************************************************************)
(* ChatService.process_citations_to_markdown                               *)
(*                                                                         *)
(* A text is a sequence of characters.  The pieces of a link that hold no  *)
(* bracket and no digit next to a bracket ("](", the URL, the quotes) are  *)
(* single tokens: the pattern \[(\d+)\] cannot match across them.          *)
(***************************************************************************)
\* Largest number of segments of a generated text and largest number of
\* retrieved chunks that are tried.
MaxSegments == 3
MaxOrdinal == 2

Digits == {"1", "2"}
Alphabet == {"[", "]", "a"} \cup Digits

DigitVal(c) == IF c = "1" THEN 1 ELSE IF c = "2" THEN 2 ELSE 0

\* int(match.group(1)) of the digits t[i..j].
RECURSIVE IntOf(_, _, _)
IntOf(t, i, j) == IF j < i THEN 0 ELSE 10 * IntOf(t, i, j - 1) + DigitVal(t[j])

\* First position at or after i that holds no digit (Len(t) + 1 if none).
RECURSIVE DigitsEnd(_, _)
DigitsEnd(t, i) ==
    IF i > Len(t) \/ t[i] \notin Digits THEN i ELSE DigitsEnd(t, i + 1)

\* re.match of \[(\d+)\] at position i: the position of the closing
\* bracket, or 0 when the pattern does not match there.
MatchEnd(t, i) ==
    IF t[i] # "[" THEN 0
    ELSE LET j == DigitsEnd(t, i + 1)
         IN  IF j > i + 1 /\ j <= Len(t) /\ t[j] = "]" THEN j ELSE 0

\* A citation entry as generate_response builds it (chat_service.py:352-360);
\* "" stands for a missing (None or empty) id or page number.
Entry(doc, chunk, title, page) ==
    [document_id |-> doc, chunk_id |-> chunk, document_title |-> title,
     page_number |-> page]

\* title = document_title, plus " (Page p)" if page_number is truthy.
LinkTitle(e) ==
    IF e.page_number # ""
    THEN e.document_title \o <<" (Page ", e.page_number, ")">>
    ELSE e.document_title

\* f"[{match.group(0)}]({url} \"{title}\")" with
\* url = f"/knowledge/{document_id}?chunks={chunk_id}".
MarkdownLink(marker, e) ==
    <<"[">> \o marker \o <<"]", "(", "/knowledge/", e.document_id,
                            "?chunks=", e.chunk_id, " \"">>
            \o LinkTitle(e) \o <<"\")">>

\* Mutant: substitutes every marker, known or not, by a link to entry 1.
replace_citation_blanket(marker, mapping) ==
    IF 1 \in DOMAIN mapping THEN MarkdownLink(marker, mapping[1]) ELSE marker

\* The callback handed to re.sub: marker is match.group(0).
replace_citation(marker, mapping) ==
    LET citation_num == IntOf(marker, 2, Len(marker) - 1)
    IN  IF citation_num \notin DOMAIN mapping THEN marker
        ELSE LET citation_data == mapping[citation_num]
             IN  IF citation_data.document_id = "" \/ citation_data.chunk_id = ""
                 THEN marker
                 ELSE MarkdownLink(marker, citation_data)

\* re.sub(r'\[(\d+)\]', replace_citation, content) from position i on:
\* leftmost match first, the scan resumes after the match.
RECURSIVE re_sub(_, _, _)
re_sub(t, i, mapping) ==
    IF i > Len(t) THEN <<>>
    ELSE LET j == MatchEnd(t, i)
         IN  IF j = 0 THEN <<t[i]>> \o re_sub(t, i + 1, mapping)
             ELSE replace_citation(SubSeq(t, i, j), mapping)
                      \o re_sub(t, j + 1, mapping)

\* if not citation_mapping: return content; else the substitution.
process_citations_to_markdown(t, mapping) ==
    IF DOMAIN mapping = {} THEN t ELSE re_sub(t, 1, mapping)

\* The citation maps tried: N entries for ordinals 1..N, all complete (with
\* or without a page number), or with entry 1 lacking an id, or with a
\* document title that itself contains a marker.
CompleteEntry(i, page) ==
    Entry(IF i = 1 THEN "d1" ELSE "d2", IF i = 1 THEN "c1" ELSE "c2", <<"T">>, page)

CitationMaps ==
    {<<>>} \cup
    UNION {
      { [i \in 1..n |-> CompleteEntry(i, "3")],
        [i \in 1..n |-> CompleteEntry(i, "")],
        [i \in 1..n |-> IF i = 1 THEN Entry("", "c1", <<"T">>, "")
                                 ELSE CompleteEntry(i, "")],
        [i \in 1..n |-> IF i = 1 THEN Entry("d1", "", <<"T">>, "3")
                                 ELSE CompleteEntry(i, "3")],
        [i \in 1..n |-> IF i = 1 THEN Entry("d1", "c1", <<"[", "1", "]">>, "")
                                 ELSE CompleteEntry(i, "")] }
      : n \in 1..MaxOrdinal }

\* The texts tried: up to MaxSegments segments, each a single character or
\* a whole marker (so every character sequence up to MaxSegments is tried,
\* and longer ones that hold several markers).
Segments ==
    {<<c>> : c \in Alphabet}
        \cup {<<"[", "1", "]">>, <<"[", "2", "]">>, <<"[", "1", "2", "]">>}

RECURSIVE Texts(_)
Texts(n) ==
    IF n = 0 THEN {<<>>}
    ELSE LET shorter == Texts(n - 1)
         IN  shorter \cup {t \o g : t \in shorter, g \in Segments}

InitCite ==
    /\ content \in Texts(MaxSegments)
    /\ citation_mapping \in CitationMaps
    /\ processed = <<>>
    /\ processed_twice = <<>>
    /\ cite_pc = "start"
    /\ ResizeIdle
    /\ CallIdle
    /\ StoreIdle
    /\ SearchIdle
    /\ QUEUE = <<>>
    /\ SysIdle

\* generate_response rewrites the generated text (chat_service.py:624-627).
ProcessCitations ==
    /\ cite_pc = "start"
    /\ processed' = process_citations_to_markdown(content, citation_mapping)
    /\ cite_pc' = "once"
    /\ UNCHANGED <<content, citation_mapping, processed_twice, resizeVars,
                   callVars,
                   storeVars, search, QUEUE, sysVars>>

\* The rewrite is run again on its own output with the same map.
ProcessCitationsAgain ==
    /\ cite_pc = "once"
    /\ processed_twice' = process_citations_to_markdown(processed, citation_mapping)
    /\ cite_pc' = "twice"
    /\ UNCHANGED <<content, citation_mapping, processed, resizeVars,
                   callVars,
                   storeVars, search, QUEUE, sysVars>>

NextCite == ProcessCitations \/ ProcessCitationsAgain

SpecCite == InitCite /\ [][NextCite]_vars

\* ---- what the claims say, stated over positions instead of by a scan
\* The markers of t: pairs <<i, j>> with t[i] = "[", t[j] = "]" and one or
\* more digits, and nothing else, between them.
MarkersOf(t) ==
    {m \in (1..Len(t)) \X (1..Len(t)) :
        /\ m[2] > m[1] + 1
        /\ t[m[1]] = "["
        /\ t[m[2]] = "]"
        /\ \A k \in (m[1] + 1)..(m[2] - 1) : t[k] \in Digits}

\* A marker whose ordinal is a key of the map with both ids present.
KnownMarker(t, mapping, m) ==
    LET n == IntOf(t, m[1] + 1, m[2] - 1)
    IN  /\ n \in DOMAIN mapping
        /\ mapping[n].document_id # ""
        /\ mapping[n].chunk_id # ""

KnownMarkersOf(t, mapping) == {m \in MarkersOf(t) : KnownMarker(t, mapping, m)}

\* The link the claim describes for the marker m of t.
ExpectedLink(t, mapping, m) ==
    LET e == mapping[IntOf(t, m[1] + 1, m[2] - 1)]
    IN  <<"[">> \o SubSeq(t, m[1], m[2])
        \o <<"]", "(", "/knowledge/", e.document_id, "?chunks=", e.chunk_id, " \"">>
        \o e.document_title
        \o (IF e.page_number # "" THEN <<" (Page ", e.page_number, ")">> ELSE <<>>)
        \o <<"\")">>

\* What position i of t contributes to the expected output.
ExpectedPiece(t, mapping, i) ==
    LET K == KnownMarkersOf(t, mapping)
    IN  IF \E m \in K : m[1] = i
        THEN ExpectedLink(t, mapping, CHOOSE m \in K : m[1] = i)
        ELSE IF \E m \in K : m[1] < i /\ i <= m[2] THEN <<>>
        ELSE <<t[i]>>

RECURSIVE ExpectedFrom(_, _, _)
ExpectedFrom(t, mapping, i) ==
    IF i > Len(t) THEN <<>>
    ELSE ExpectedPiece(t, mapping, i) \o ExpectedFrom(t, mapping, i + 1)

\* C5: the rewrite is replace-if-known, else-leave-verbatim: every marker
\* [n] whose n is a key of the map with both ids is replaced by a link that
\* wraps the marker, points to /knowledge/<document_id>?chunks=<chunk_id>
\* and carries the title (plus the page when present); every other marker
\* and every other character is left as it is.
C5_ReplaceIfKnown ==
    cite_pc # "start" => processed = ExpectedFrom(content, citation_mapping, 1)

\* C5 witness: a text with a known marker, and one with an unknown marker or
\* a marker whose entry lacks an id, has been rewritten.
C5_Witness ==
    /\ cite_pc # "start"
    /\ KnownMarkersOf(content, citation_mapping) # {}
    /\ MarkersOf(content) # KnownMarkersOf(content, citation_mapping)
    /\ processed # content

\* C4 as claimed: running the rewrite on its own output changes nothing,
\* also when the text holds markers of known ordinals.
C4_Idempotent ==
    cite_pc = "twice" => processed_twice = processed

\* C4 as amended: the rewrite is idempotent on every text that holds no
\* marker of a known ordinal with both ids.
C4_IdempotentNoKnownMarker ==
    (cite_pc = "twice" /\ KnownMarkersOf(content, citation_mapping) = {})
        => processed_twice = processed

\* C4 witness: a text whose only markers are unknown to a non-empty map has
\* been rewritten twice.
C4_Witness ==
    /\ cite_pc = "twice"
    /\ DOMAIN citation_mapping # {}
    /\ MarkersOf(content) # {}
    /\ KnownMarkersOf(content, citation_mapping) = {}

(***************************************************************************)
(* The embedding backend and the chunk rows                                *)
(***************************************************************************)
\* settings.embedding_model_resolved and settings.ollama_model: the model
\* LangchainOllamaService.embed asks first and the one it falls back to.
EmbeddingModel == "nomic-embed-text"
GenerationModel == "smollm2:135m"

\* The vector a model returns: its dimension is a property of the model,
\* and its values tell which model produced it.
ModelVector(m) ==
    IF m = EmbeddingModel THEN <<1, 1>> ELSE <<2, 2, 2>>

Models == {EmbeddingModel, GenerationModel}

\* LangchainOllamaService.embed(text), where up holds the models whose
\* embeddings request answers with a vector: the embedding model is asked
\* first, then the generation model; the error is raised when both failed.
embed(up) ==
    IF EmbeddingModel \in up
    THEN [raised |-> FALSE, v |-> ModelVector(EmbeddingModel)]
    ELSE IF GenerationModel \in up
    THEN [raised |-> FALSE, v |-> ModelVector(GenerationModel)]
    ELSE [raised |-> TRUE, v |-> <<>>]

\* A text argument that is None.
NoneText == "None"

\* enqueue_reembed(doc_id, text, priority): the queue after put_nowait of
\* (priority_value, (str(doc_id), text or "")).
enqueue_reembed(q, doc_id, text, priority) ==
    Append(q, [priority_value |-> IF priority THEN 0 ELSE 1,
               doc_id |-> doc_id,
               text |-> IF text = NoneText THEN "" ELSE text])

\* NULL in the nullable columns embedding_dim (an integer) and
\* embedding_model (a string).
NullDim == -1
NullModel == "NULL"

\* A row of document_chunks as the ingestion handlers create it: they set
\* id, document_id, chunk_index and embedding, and neither embedding_dim
\* nor embedding_model.
NewChunk(id, document_id, chunk_index, embedding) ==
    [id |-> id, document_id |-> document_id, chunk_index |-> chunk_index,
     embedding |-> embedding, embedding_dim |-> NullDim,
     embedding_model |-> NullModel]

(***************************************************************************)
(* LangchainOllamaService.embed and                                        *)
(* embedding_utils.resize_embedding_and_maybe_reembed                      *)
(***************************************************************************)
\* The result of a call that returned v, and of one that raised.
Returned_(v, q, calls, fresh) ==
    [raised |-> FALSE, v |-> v, queue |-> q, embed_calls |-> calls,
     fresh |-> fresh]
Raised_(q, calls) ==
    [raised |-> TRUE, v |-> <<>>, queue |-> q, embed_calls |-> calls,
     fresh |-> <<>>]

\* cur = current_dim or (len(current_vec) if current_vec else 0)
CurrentDim(current_vec, current_dim) ==
    IF current_dim # NullDim /\ current_dim # 0 THEN current_dim
    ELSE IF current_vec.none THEN 0 ELSE Len(current_vec.v)

\* Mutant: a shrink always truncates the stored vector and queues the
\* repair, whatever force_sync_on_shrink says.
resize_embedding_truncates(text, current_vec, current_dim, d, doc_id, force_sync_on_shrink, up, q) ==
    LET cur == CurrentDim(current_vec, current_dim)
    IN  IF cur = d
        THEN Returned_(IF current_vec.none THEN <<>> ELSE current_vec.v,
                       q, 0, <<>>)
        ELSE IF cur < d
        THEN Returned_(pad_or_truncate(current_vec, d),
                       enqueue_reembed(q, doc_id, text, FALSE), 0, <<>>)
        ELSE Returned_(pad_or_truncate(current_vec, d),
                       enqueue_reembed(q, doc_id, text, TRUE), 0, <<>>)

\* resize_embedding_and_maybe_reembed on the queue q, with the backend up:
\* the returned vector or the raised error, the queue afterwards, the
\* number of svc.embed calls and the vector svc.embed returned.
resize_embedding_and_maybe_reembed(text, current_vec, current_dim, d, doc_id, force_sync_on_shrink, up, q) ==
    LET cur == CurrentDim(current_vec, current_dim)
    IN  IF cur = d
        THEN Returned_(IF current_vec.none THEN <<>> ELSE current_vec.v,
                       q, 0, <<>>)
        ELSE IF cur < d
        THEN Returned_(pad_or_truncate(current_vec, d),
                       enqueue_reembed(q, doc_id, text, FALSE), 0, <<>>)
        ELSE IF force_sync_on_shrink
        THEN LET new == embed(up)
             IN  IF new.raised THEN Raised_(q, 1)
                 ELSE Returned_(pad_or_truncate(SomeVec(new.v), d),
                                q, 1, new.v)
        ELSE Returned_(pad_or_truncate(current_vec, d),
                       enqueue_reembed(q, doc_id, text, TRUE), 0, <<>>)

\* The queue holds nothing, or one item put earlier.
InitReembed ==
    /\ QUEUE \in {<<>>, enqueue_reembed(<<>>, 1, "t", FALSE)}
    /\ reembed = NoCall
    /\ stream = NoStream
    /\ MoreIdle
    /\ ResizeIdle
    /\ CiteIdle
    /\ StoreIdle
    /\ SearchIdle
    /\ SysIdle

\* A caller evaluates svc.embed(text) (EmbeddingService.embed_text hands the
\* call through).
EmbedText ==
    /\ reembed.op = "none"
    /\ \E up \in SUBSET Models :
         LET r == embed(up)
         IN  reembed' = [op |-> "embed", up |-> up, raised |-> r.raised,
                         v |-> r.v]
    /\ UNCHANGED <<QUEUE, resizeVars, citeVars, storeVars, search, sysVars,
                   stream, moreVars>>

\* A caller evaluates resize_embedding_and_maybe_reembed(text, current_vec,
\* current_dim, target_dim, doc_id, force_sync_on_shrink).
ResizeEmbedding ==
    /\ reembed.op = "none"
    /\ \E text \in {NoneText, "t"},
          current_vec \in {NoneVec} \cup
                          {SomeVec(v) : v \in SeqsUpTo(VecValues, MaxLen)},
          current_dim \in {NullDim} \cup (0..MaxDim),
          td \in 0..MaxDim,
          force_sync_on_shrink \in BOOLEAN,
          up \in SUBSET Models :
         LET r == resize_embedding_and_maybe_reembed(
                      text, current_vec, current_dim, td, 2,
                      force_sync_on_shrink, up, QUEUE)
         IN  /\ reembed' = [op |-> "resize", text |-> text,
                            current_vec |-> current_vec,
                            current_dim |-> current_dim, target_dim |-> td,
                            doc_id |-> 2,
                            force_sync_on_shrink |-> force_sync_on_shrink,
                            up |-> up, queue_before |-> QUEUE,
                            raised |-> r.raised, v |-> r.v,
                            embed_calls |-> r.embed_calls, fresh |-> r.fresh]
             /\ QUEUE' = r.queue
    /\ UNCHANGED <<resizeVars, citeVars, storeVars, search, sysVars, stream,
                   moreVars>>

NextReembed == EmbedText \/ ResizeEmbedding

SpecReembed == InitReembed /\ [][NextReembed]_vars

\* C14: when the request to the configured embedding model fails, embed
\* raises; it returns no vector.
C14_EmbedRaisesOnFailure ==
    (reembed.op = "embed" /\ EmbeddingModel \notin reembed.up) =>
        reembed.raised

\* The stored vector of the call, and the case of the claims on resize: the
\* recorded dimension is missing or is the length of the stored vector.
StoredVec == IF reembed.current_vec.none THEN <<>> ELSE reembed.current_vec.v
DimRecordAgrees ==
    reembed.current_dim \in {NullDim, Len(StoredVec)}
Zeros(n) == [i \in 1..n |-> 0]
QueuedText == IF reembed.text = NoneText THEN "" ELSE reembed.text

\* C15: grow: with a stored dimension below target_dim the call returns the
\* stored vector followed by zeros up to target_dim, calls no embedding
\* backend, and puts exactly one item of low priority (value 1) with the
\* chunk id and the text at the end of the queue.
C15_GrowPadsAndEnqueues ==
    (/\ reembed.op = "resize"
     /\ DimRecordAgrees
     /\ Len(StoredVec) < reembed.target_dim) =>
        /\ ~reembed.raised
        /\ reembed.v =
               StoredVec \o Zeros(reembed.target_dim - Len(StoredVec))
        /\ reembed.embed_calls = 0
        /\ QUEUE = reembed.queue_before \o
                   <<[priority_value |-> 1, doc_id |-> reembed.doc_id,
                      text |-> QueuedText]>>

\* C15 witness: a non-empty stored vector was padded while an older item
\* was waiting on the queue.
C15_Witness ==
    /\ reembed.op = "resize"
    /\ DimRecordAgrees
    /\ StoredVec # <<>>
    /\ Len(StoredVec) < reembed.target_dim
    /\ reembed.queue_before # <<>>
    /\ Len(QUEUE) = 2

\* The stored dimension is above target_dim.
ShrinkCase ==
    /\ reembed.op = "resize"
    /\ DimRecordAgrees
    /\ Len(StoredVec) > reembed.target_dim

\* C16 as stated: a forced synchronous shrink returns the fresh vector
\* itself and queues nothing; an asynchronous one queues exactly one item of
\* high priority and returns the first target_dim values of the stored
\* vector.
C16_ShrinkReturnsFresh ==
    ShrinkCase =>
        IF reembed.force_sync_on_shrink
        THEN ~reembed.raised =>
                 /\ reembed.embed_calls = 1
                 /\ reembed.v = reembed.fresh
                 /\ QUEUE = reembed.queue_before
        ELSE /\ ~reembed.raised
             /\ reembed.v = SubSeq(StoredVec, 1, reembed.target_dim)
             /\ QUEUE = reembed.queue_before \o
                        <<[priority_value |-> 0, doc_id |-> reembed.doc_id,
                           text |-> QueuedText]>>

\* C16, amended: a forced synchronous shrink calls the backend once and
\* queues nothing; it raises when the backend raises, and otherwise returns
\* the fresh vector cut or zero-padded to target_dim (the fresh vector
\* itself when its length is target_dim), never values of the stored
\* vector.  An asynchronous shrink calls no backend, queues exactly one item
\* of high priority (value 0) and returns the first target_dim values of the
\* stored vector.
C16_ShrinkReturnsFreshResized ==
    ShrinkCase =>
        IF reembed.force_sync_on_shrink
        THEN /\ reembed.embed_calls = 1
             /\ QUEUE = reembed.queue_before
             /\ reembed.raised <=> reembed.up = {}
             /\ ~reembed.raised =>
                    /\ Len(reembed.v) = reembed.target_dim
                    /\ \A i \in 1..reembed.target_dim :
                          reembed.v[i] = IF i <= Len(reembed.fresh)
                                         THEN reembed.fresh[i] ELSE 0
                    /\ Len(reembed.fresh) = reembed.target_dim =>
                           reembed.v = reembed.fresh
        ELSE /\ ~reembed.raised
             /\ reembed.embed_calls = 0
             /\ reembed.v = SubSeq(StoredVec, 1, reembed.target_dim)
             /\ QUEUE = reembed.queue_before \o
                        <<[priority_value |-> 0, doc_id |-> reembed.doc_id,
                           text |-> QueuedText]>>

\* C16 witness: a forced synchronous shrink whose fresh vector is longer
\* than target_dim and differs from the stored vector.
C16_Witness ==
    /\ ShrinkCase
    /\ reembed.force_sync_on_shrink
    /\ ~reembed.raised
    /\ Len(reembed.fresh) > reembed.target_dim
    /\ reembed.target_dim > 0
    /\ reembed.v # SubSeq(StoredVec, 1, reembed.target_dim)



\* C29: whatever the stored vector and the recorded dimension are, a call
\* that returns hands back a vector of length target_dim.
C29_ReturnsTargetDim ==
    (reembed.op = "resize" /\ ~reembed.raised) =>
        Len(reembed.v) = reembed.target_dim

(***************************************************************************)
(* api.chat.chat_with_ai, its generate_stream and                          *)
(* ChatService.generate_response                                           *)
(*                                                                         *)
(* stream follows one answer: the messages committed to the chat, the      *)
(* increments the text generation will still deliver and whether it raises *)
(* after them, the content accumulated, the events sent to the client.     *)
(* A text is the sequence of its non-empty pieces.                         *)
(***************************************************************************)
\* Increments per answer that are tried.
MaxIncrements == 3

\* The increments a generation delivers; one may be empty.
Chunks == {"", "a", "b"}

IncrementSeqs ==
    UNION {[1..n -> Chunks] : n \in 0..MaxIncrements}

UserMessage == "q"

err_msg == "Fehler beim Aufruf des LLM-Service."

\* response_content += chunk
Concat(t, chunk) == IF chunk = "" THEN t ELSE Append(t, chunk)

\* generate_stream: if chunk: a content event is sent.
ContentEvents(events, chunk) ==
    IF chunk = "" THEN events
    ELSE Append(events, [type |-> "content", payload |-> <<chunk>>])

\* ChatService.add_message: the message is added and committed.
add_message(messages, role, t) ==
    Append(messages, [role |-> role, content |-> t])

\* Messages a chat holds before the request that are tried.
MaxHistory == 2

\* The chat before the request: n messages, users and assistant taking
\* turns; a message's place in the table is its created_at.
PriorMessages(n) ==
    [i \in 1..n |->
        [role |-> IF i % 2 = 1 THEN "user" ELSE "assistant",
         content |-> <<"m", i>>]]

\* chat.messages as selectinload delivers it: the relationship has no
\* order_by, so the rows come in an order the store chooses.
LoadOrders(n) ==
    {o \in [1..n -> 1..n] : \A i \in 1..n, j \in 1..n : o[i] = o[j] => i = j}

\* seq[:-1]
ButLast(seq) == SubSeq(seq, 1, Len(seq) - 1)

\* sorted(..., key=lambda x: x.created_at) on places in the table.
RECURSIVE SortedByCreatedAt(_)
SortedByCreatedAt(places) ==
    IF places = {} THEN <<>>
    ELSE LET first == CHOOSE p \in places : \A o \in places : p <= o
         IN  <<first>> \o SortedByCreatedAt(places \ {first})

SystemMessage == [role |-> "system", content |-> <<"base_prompt">>]

\* The list handed to the text generation: the system message, then
\* sorted(chat.messages[:-1]) of the chat object loaded before the user
\* message was added, then the user message.
LlmMessages(table, loaded, user_message) ==
    LET kept == SortedByCreatedAt(
                    {ButLast(loaded)[i] : i \in 1..(Len(loaded) - 1)})
    IN  <<SystemMessage>>
        \o [i \in 1..Len(kept) |-> table[kept[i]]]
        \o <<[role |-> "user", content |-> user_message]>>

InitChat ==
    /\ stream = NoStream
    /\ reembed = NoCall
    /\ MoreIdle
    /\ QUEUE = <<>>
    /\ ResizeIdle
    /\ CiteIdle
    /\ StoreIdle
    /\ SearchIdle
    /\ SysIdle

chatOther ==
    <<resizeVars, citeVars, storeVars, search, QUEUE, sysVars, reembed,
      moreVars>>

\* POST /chat: get_or_create_chat is called with user_id=None, which it
\* does not take; the TypeError becomes HTTP 500 before any stream starts.
ChatWithAi ==
    /\ stream.pc = "idle"
    /\ stream' = [stream EXCEPT !.pc = "http_error", !.status_code = 500]
    /\ UNCHANGED chatOther

\* generate_response for a chat that does not exist: ValueError, which
\* generate_stream turns into the error event.
GenerateResponseNoChat ==
    /\ stream.pc = "idle"
    /\ stream' = [stream EXCEPT
           !.pc = "done",
           !.status_code = 200,
           !.events = <<[type |-> "error", payload |-> <<"Chat not found">>]>>]
    /\ UNCHANGED chatOther

\* generate_response with arguments that bind: the user message is
\* committed and the text generation is started.
GenerateResponse ==
    /\ stream.pc = "idle"
    /\ \E incs \in IncrementSeqs, fails \in BOOLEAN, n \in 0..MaxHistory :
         \E loaded \in LoadOrders(n) :
            stream' = [stream EXCEPT
                !.pc = "stream",
                !.status_code = 200,
                !.prior = n,
                !.loaded = loaded,
                !.messages =
                    add_message(PriorMessages(n), "user", <<UserMessage>>),
                !.sent = LlmMessages(PriorMessages(n), loaded,
                                     <<UserMessage>>),
                !.pending = incs,
                !.fails = fails]
    /\ UNCHANGED chatOther

\* async for chunk in gen(messages): response_content += chunk;
\* yield (chunk, None), which generate_stream sends on.
StreamIncrement ==
    /\ stream.pc = "stream"
    /\ stream.pending # <<>>
    /\ LET chunk == Head(stream.pending)
       IN  stream' = [stream EXCEPT
               !.pending = Tail(stream.pending),
               !.response_content = Concat(stream.response_content, chunk),
               !.events = ContentEvents(stream.events, chunk)]
    /\ UNCHANGED chatOther

\* The text generation raises: except Exception appends err_msg to the
\* content and yields it as one more increment.
GenerationRaises ==
    /\ stream.pc = "stream"
    /\ stream.pending = <<>>
    /\ stream.fails
    /\ stream' = [stream EXCEPT
           !.pc = "raised",
           !.raised = TRUE,
           !.response_content = Concat(stream.response_content, err_msg),
           !.events = ContentEvents(stream.events, err_msg)]
    /\ UNCHANGED chatOther

\* After the try statement: the citations are processed and the assistant
\* message is committed.
SaveAssistantMessage ==
    /\ \/ stream.pc = "stream" /\ stream.pending = <<>> /\ ~stream.fails
       \/ stream.pc = "raised"
    /\ stream' = [stream EXCEPT
           !.pc = "saved",
           !.messages =
               add_message(stream.messages, "assistant",
                   process_citations_to_markdown(stream.response_content,
                                                 <<>>))]
    /\ UNCHANGED chatOther

\* yield ("", assistant_msg.id, ...): generate_stream sends the done event
\* and leaves its loop.
SendDone ==
    /\ stream.pc = "saved"
    /\ stream' = [stream EXCEPT
           !.pc = "done",
           !.events = Append(stream.events, [type |-> "done", payload |-> <<>>])]
    /\ UNCHANGED chatOther

\* The client disconnects: the response task is cancelled and the
\* generators are closed where they stand.  CancelledError and
\* GeneratorExit are no Exception, so no except clause of generate_response
\* or generate_stream takes them and nothing after the try statement runs.
ClientDisconnects ==
    /\ stream.pc \in {"stream", "raised", "saved"}
    /\ stream' = [stream EXCEPT !.pc = "closed", !.closed_at = stream.pc]
    /\ UNCHANGED chatOther

NextChat ==
    \/ ChatWithAi
    \/ GenerateResponseNoChat
    \/ GenerateResponse
    \/ StreamIncrement
    \/ GenerationRaises
    \/ SaveAssistantMessage
    \/ SendDone
    \/ ClientDisconnects

SpecChat == InitChat /\ [][NextChat]_vars

LastOf(q) == q[Len(q)]

\* The client went away between two increments of a running generation,
\* with some content already accumulated.
DisconnectedMidStream ==
    /\ stream.pc = "closed"
    /\ stream.closed_at = "stream"
    /\ stream.response_content # <<>>
    /\ stream.pending # <<>>

\* C11: after a disconnect during the streaming of the increments, no
\* further increment is consumed and the chat holds an assistant message
\* with the content accumulated until then.
C11_DisconnectKeepsPartialAnswer ==
    DisconnectedMidStream =>
        /\ stream.messages # <<>>
        /\ LastOf(stream.messages) =
               [role |-> "assistant", content |-> stream.response_content]

\* C28: the list sent to the text generation is one system message, every
\* message the chat held before the request in created_at order, and the
\* current user message once, as the last entry.
C28_HistoryComplete ==
    stream.sent # <<>> =>
        stream.sent =
            <<SystemMessage>> \o PriorMessages(stream.prior)
            \o <<[role |-> "user", content |-> <<UserMessage>>]>>

\* C12: when the text generation has raised, the last event sent to the
\* client is an error event.
C12_FailureEndsWithErrorEvent ==
    (stream.raised /\ stream.pc = "done") =>
        LastOf(stream.events).type = "error"


(***************************************************************************)
(* azure_openai.AzureOpenAIService._execute_with_retry                     *)
(*                                                                         *)
(* retry follows one call: the loop variable attempt, the outcome of every *)
(* invocation of the operation so far, the delays slept between them.      *)
(***************************************************************************)
\* Values of max_retries that are tried (the callers pass the default, 3).
MaxRetries == 3

\* Upper bound of a delay, in seconds: min(..., 60).
MaxDelay == 60

\* What an invocation of the operation can end with: its result, a
\* RateLimitError (or an APIStatusError that counts as one), another
\* APIStatusError, any other Exception.
Failures == {"rate_limit", "api_error", "error"}

\* The Retry-After header of a rate-limit answer: absent, a number of
\* seconds, or a date, which float() does not take.
RetryAfter == {"absent", "1", "90", "date"}
Jitter == {0, 1}

RECURSIVE Pow2(_)
Pow2(n) == IF n = 0 THEN 1 ELSE 2 * Pow2(n - 1)

HeaderSeconds(h) == IF h = "1" THEN 1 ELSE 90

\* delay = min(float(retry_after) + jitter, 60) with the header, else
\* min(2 ** attempt + jitter, 60).
Delay(h, attempt, jitter) ==
    IF h = "absent" THEN Min(Pow2(attempt) + jitter, MaxDelay)
    ELSE Min(HeaderSeconds(h) + jitter, MaxDelay)

\* Mutant: the last attempt is recognised one attempt too late.
LastAttempt_late(attempt, max_retries) == attempt = max_retries

\* if attempt == max_retries - 1
LastAttempt(attempt, max_retries) == attempt = max_retries - 1

InitRetry ==
    /\ retry = NoRetry
    /\ answer = NoAnswer
    /\ chunker = NoChunker
    /\ reembed = NoCall
    /\ stream = NoStream
    /\ QUEUE = <<>>
    /\ ResizeIdle
    /\ CiteIdle
    /\ StoreIdle
    /\ SearchIdle
    /\ SysIdle

retryOther ==
    <<resizeVars, citeVars, storeVars, search, QUEUE, sysVars, reembed,
      stream, answer, chunker>>

\* await self._execute_with_retry(_generate): the loop is entered.
ExecuteWithRetry ==
    /\ retry.pc = "idle"
    /\ \E max_retries \in 1..MaxRetries :
         retry' = [retry EXCEPT !.pc = "call", !.max_retries = max_retries]
    /\ UNCHANGED retryOther

\* return await operation()
OperationReturns ==
    /\ retry.pc = "call"
    /\ retry' = [retry EXCEPT !.pc = "returned",
                              !.outcomes = Append(@, "result")]
    /\ UNCHANGED retryOther

\* The operation raises an error that is no rate limit: it is logged and
\* raised again as Exception("Azure OpenAI API error: ...").
OperationFails ==
    /\ retry.pc = "call"
    /\ \E f \in Failures \ {"rate_limit"} :
         retry' = [retry EXCEPT !.pc = "raised", !.outcomes = Append(@, f)]
    /\ UNCHANGED retryOther

\* The operation raises a rate-limit error: on the last attempt the
\* function raises; before it, the delay is computed (float() of a date
\* raises ValueError) and slept.
OperationRateLimited ==
    /\ retry.pc = "call"
    /\ \E h \in RetryAfter, jitter \in Jitter :
         retry' =
           IF LastAttempt(retry.attempt, retry.max_retries)
           THEN [retry EXCEPT !.pc = "raised",
                              !.outcomes = Append(@, "rate_limit")]
           ELSE IF h = "date"
           THEN [retry EXCEPT !.pc = "raised",
                              !.outcomes = Append(@, "rate_limit")]
           ELSE [retry EXCEPT
                    !.pc = "sleep",
                    !.outcomes = Append(@, "rate_limit"),
                    !.delays = Append(@, Delay(h, retry.attempt, jitter))]
    /\ UNCHANGED retryOther

\* await asyncio.sleep(delay) returns: the next round of
\* for attempt in range(max_retries), or the end of the loop.
SleepReturns ==
    /\ retry.pc = "sleep"
    /\ retry' = IF retry.attempt + 1 < retry.max_retries
                THEN [retry EXCEPT !.pc = "call", !.attempt = @ + 1]
                ELSE [retry EXCEPT !.pc = "fell_through"]
    /\ UNCHANGED retryOther

NextRetry ==
    \/ ExecuteWithRetry
    \/ OperationReturns
    \/ OperationFails
    \/ OperationRateLimited
    \/ SleepReturns

SpecRetry == InitRetry /\ [][NextRetry]_vars

\* The caller makes the call, and every invocation of the operation and
\* every sleep comes back.
SpecRetryFair == SpecRetry /\ WF_vars(NextRetry)

Invocations == Len(retry.outcomes)

\* The operation is invoked at most max_retries times, and again only after
\* a rate-limit error; the call has ended with the result exactly when the
\* last invocation gave it and with an error exactly when the last
\* invocation failed; max_retries rate-limited invocations end it with an
\* error, and it never ends in any other way.
RetryBounded ==
    /\ Invocations <= retry.max_retries
    /\ \A i \in 1..(Invocations - 1) : retry.outcomes[i] = "rate_limit"
    /\ retry.pc = "returned" <=>
           (Invocations > 0 /\ retry.outcomes[Invocations] = "result")
    /\ retry.pc = "raised" =>
           (Invocations > 0 /\ retry.outcomes[Invocations] \in Failures)
    /\ (Invocations = retry.max_retries /\ retry.pc # "idle"
           /\ retry.outcomes[Invocations] = "rate_limit") =>
           retry.pc = "raised"
    /\ (Invocations > 0
           /\ retry.outcomes[Invocations] \in {"api_error", "error"}) =>
           retry.pc = "raised"
    /\ retry.pc # "fell_through"
    /\ \A i \in 1..Len(retry.delays) : retry.delays[i] <= MaxDelay

\* C26: _execute_with_retry invokes the operation at most max_retries
\* times, retries only after a rate-limit error, raises at once on any
\* other error and after max_retries rate-limited attempts, and always ends
\* with the operation's result or a raised error.
C26_BoundedRetry ==
    /\ []RetryBounded
    /\ <>(retry.pc \in {"returned", "raised"})

\* Every one of three attempts was rate-limited and the call has raised,
\* after the two backoff delays 2^0 and 2^1 + 1.
C26_Witness ==
    /\ retry.pc = "raised"
    /\ retry.max_retries = 3
    /\ retry.outcomes = <<"rate_limit", "rate_limit", "rate_limit">>
    /\ retry.delays = <<1, 3>>


(***************************************************************************)
(* The chunker: RecursiveCharacterTextSplitter as EmbeddingService         *)
(* configures it, process_uploaded_document, update_document_chunks and    *)
(* chunk_chat_conversation                                                 *)
(*                                                                         *)
(* A text is a sequence of characters; a span <<s, e>> is the part of a    *)
(* text from offset s up to, not including, offset e.  The splitter is     *)
(* followed with one separator ahead of the empty one and with chunk_size  *)
(* and chunk_overlap scaled 1:100.                                         *)
(***************************************************************************)
\* chunk_size=1000 and chunk_overlap=200, in hundreds of characters.
ChunkSize == 10
ChunkOverlap == 2

\* Length of the document of the scenario (2200 characters), paragraphs per
\* page, pages per document, messages per chat and characters per message
\* that are tried.
ScenarioLength == 22
MaxParagraphs == 4
MaxPages == 2
MaxMessages == 2
MaxContent == 4

NL == "\n"
Whitespace == {NL}

SpanLen(p) == p[2] - p[1]
Cut(text, p) == SubSeq(text, p[1] + 1, p[2])

RECURSIVE Ascending(_)
Ascending(S) ==
    IF S = {} THEN <<>>
    ELSE LET m == CHOOSE x \in S : \A y \in S : x <= y
         IN  <<m>> \o Ascending(S \ {m})

\* text.strip(), on the span
RECURSIVE StripLeft(_, _, _)
StripLeft(text, s, e) ==
    IF s < e /\ text[s + 1] \in Whitespace THEN StripLeft(text, s + 1, e)
    ELSE s
RECURSIVE StripRight(_, _, _)
StripRight(text, s, e) ==
    IF s < e /\ text[e] \in Whitespace THEN StripRight(text, s, e - 1)
    ELSE e

\* _join_docs: the pieces joined and stripped; None (here no chunk) when
\* nothing is left.
JoinDocs(text, current_doc) ==
    IF current_doc = <<>> THEN <<>>
    ELSE LET s == StripLeft(text, current_doc[1][1],
                            current_doc[Len(current_doc)][2])
             e == StripRight(text, s, current_doc[Len(current_doc)][2])
         IN  IF s = e THEN <<>> ELSE << <<s, e>> >>

\* total: the pieces of current_doc follow each other in the text.
Total(current_doc) ==
    IF current_doc = <<>> THEN 0
    ELSE current_doc[Len(current_doc)][2] - current_doc[1][1]

\* while total > chunk_overlap or (total + len > chunk_size and total > 0):
\*     current_doc = current_doc[1:]
RECURSIVE PopFront(_, _)
PopFront(current_doc, len) ==
    IF \/ Total(current_doc) > ChunkOverlap
       \/ Total(current_doc) + len > ChunkSize /\ Total(current_doc) > 0
    THEN PopFront(Tail(current_doc), len)
    ELSE current_doc

\* _merge_splits, from piece k on.
RECURSIVE MergeFrom(_, _, _, _, _)
MergeFrom(text, splits, k, current_doc, docs) ==
    IF k > Len(splits) THEN docs \o JoinDocs(text, current_doc)
    ELSE LET d == splits[k]
         IN  IF Total(current_doc) + SpanLen(d) > ChunkSize
                /\ current_doc # <<>>
             THEN MergeFrom(text, splits, k + 1,
                            Append(PopFront(current_doc, SpanLen(d)), d),
                            docs \o JoinDocs(text, current_doc))
             ELSE MergeFrom(text, splits, k + 1, Append(current_doc, d), docs)

merge_splits(text, splits) == MergeFrom(text, splits, 1, <<>>, <<>>)

\* The separator "": list(text).
CharSplits(p) == [i \in 1..SpanLen(p) |-> <<p[1] + i - 1, p[1] + i>>]

\* A separator kept at the start of the piece that follows it; empty
\* pieces are dropped.
SeparatorSplits(text) ==
    LET starts == Ascending({0} \cup {i \in 0..(Len(text) - 1) :
                                         text[i + 1] = NL})
    IN  [k \in 1..Len(starts) |->
            <<starts[k],
              IF k < Len(starts) THEN starts[k + 1] ELSE Len(text)>>]

\* _split_text: pieces shorter than chunk_size are merged, a longer one is
\* split with the next separator.
RECURSIVE SplitPieces(_, _, _, _, _)
SplitPieces(text, splits, k, good_splits, final_chunks) ==
    IF k > Len(splits)
    THEN final_chunks \o merge_splits(text, good_splits)
    ELSE IF SpanLen(splits[k]) < ChunkSize
    THEN SplitPieces(text, splits, k + 1, Append(good_splits, splits[k]),
                     final_chunks)
    ELSE SplitPieces(text, splits, k + 1, <<>>,
                     final_chunks \o merge_splits(text, good_splits)
                     \o merge_splits(text, CharSplits(splits[k])))

\* text_splitter.split_text(text): the spans of the chunks.
split_text(text) ==
    IF \E i \in 1..Len(text) : text[i] = NL
    THEN SplitPieces(text, SeparatorSplits(text), 1, <<>>, <<>>)
    ELSE merge_splits(text, CharSplits(<<0, Len(text)>>))

\* The texts tried for a page: up to MaxParagraphs paragraphs, each
\* starting on a new line, n characters in all.
RECURSIVE Paragraphs(_)
Paragraphs(lens) ==
    IF lens = <<>> THEN <<>>
    ELSE [i \in 1..lens[1] |-> "a"]
         \o (IF Len(lens) = 1 THEN <<>> ELSE <<NL>> \o Paragraphs(Tail(lens)))
RECURSIVE SumOf(_)
SumOf(lens) == IF lens = <<>> THEN 0 ELSE lens[1] + SumOf(Tail(lens))
PageTexts(n, paragraphs) ==
    {Paragraphs(lens) :
        lens \in {l \in UNION {[1..k -> 1..n] : k \in 1..paragraphs} :
                     SumOf(l) + Len(l) - 1 = n}}


InitChunk ==
    /\ chunker = NoChunker
    /\ retry = NoRetry
    /\ answer = NoAnswer
    /\ reembed = NoCall
    /\ stream = NoStream
    /\ QUEUE = <<>>
    /\ ResizeIdle
    /\ CiteIdle
    /\ StoreIdle
    /\ SearchIdle
    /\ SysIdle

chunkOther ==
    <<resizeVars, citeVars, storeVars, search, QUEUE, sysVars, reembed,
      stream, retry, answer>>

\* The documents tried: one page of ScenarioLength characters, or MaxPages
\* pages of half that length.
Uploads ==
    {<<t>> : t \in PageTexts(ScenarioLength, MaxParagraphs)}
        \cup [1..MaxPages -> PageTexts(ScenarioLength \div 2, 2)]

\* for doc_idx, doc in enumerate(documents):
\*     for local_chunk_idx, chunk_content in enumerate(page_chunks): ...
\*         global_chunk_index += 1
RECURSIVE PageChunks(_, _, _)
PageChunks(pages, doc_idx, global_chunk_index) ==
    IF doc_idx > Len(pages) THEN <<>>
    ELSE LET page_content == pages[doc_idx]
             page_chunks == split_text(page_content)
         IN  [local \in 1..Len(page_chunks) |->
                 [chunk_index |-> global_chunk_index + local - 1,
                  content |-> Cut(page_content, page_chunks[local]),
                  page_index |-> doc_idx - 1,
                  chunk_on_page |-> local - 1,
                  span |-> page_chunks[local]]]
             \o PageChunks(pages, doc_idx + 1,
                           global_chunk_index + Len(page_chunks))

\* process_uploaded_document, as far as the chunk objects: the pages are
\* split one after the other.
ProcessUploadedPages ==
    /\ chunker.op = "none"
    /\ \E pages \in Uploads :
           chunker' = [op |-> "upload", documents |-> pages,
                       chunks |-> PageChunks(pages, 1, 0)]
    /\ UNCHANGED chunkOther

\* update_document_chunks: the old chunks are deleted and the chunks of the
\* payload are inserted under their position in the payload.
UpdateChunks ==
    /\ chunker.op = "none"
    /\ \E n \in 0..MaxParagraphs :
           chunker' = [op |-> "replace",
                       documents |-> <<>>,
                       chunks |-> [index \in 1..n |->
                                      [chunk_index |-> index - 1,
                                       content |-> <<"a">>,
                                       page_index |-> 0,
                                       chunk_on_page |-> index - 1,
                                       span |-> <<index - 1, index>>]]]
    /\ UNCHANGED chunkOther

\* The chats tried: up to MaxMessages messages in the order of created_at,
\* of one character or of MaxContent characters.
Roles == {"user", "assistant"}
Contents ==
    UNION {[1..n -> {"a", "b"}] : n \in {1, MaxContent}}
Chats ==
    UNION {[1..n -> [role : Roles, content : Contents]] :
              n \in 1..MaxMessages}

\* role_prefix = f"\n\n{msg.role.upper()}:\n", the role in one character.
role_prefix(role) ==
    <<NL, IF role = "user" THEN "U" ELSE "A", NL>>
full_text(msg) == role_prefix(msg.role) \o msg.content

RECURSIVE full_conversation(_)
full_conversation(messages) ==
    IF messages = <<>> THEN <<>>
    ELSE full_text(messages[1]) \o full_conversation(Tail(messages))

\* message_boundaries: message i of the sorted messages lies in
\* [start, end) of the transcript.
message_boundaries(messages) ==
    [i \in 1..Len(messages) |->
        [message_id |-> i,
         start |-> Len(full_conversation(SubSeq(messages, 1, i - 1))),
         end |-> Len(full_conversation(SubSeq(messages, 1, i)))]]

\* str.find: the offset of the first occurrence, -1 without one.
find(text, sub) ==
    LET at == {i \in 0..(Len(text) - Len(sub)) :
                  SubSeq(text, i + 1, i + Len(sub)) = sub}
    IN  IF at = {} THEN -1 ELSE CHOOSE i \in at : \A k \in at : i <= k

\* if boundary['start'] < chunk_end and boundary['end'] > chunk_start
Overlapping(boundaries, chunk_start, chunk_end) ==
    {boundaries[i].message_id :
        i \in {k \in 1..Len(boundaries) :
                  /\ boundaries[k].start < chunk_end
                  /\ boundaries[k].end > chunk_start}}

\* chunk_chat_conversation; span is the part of the transcript the
\* splitter cut the chunk from.
chunk_chat_conversation(messages) ==
    LET text == full_conversation(messages)
        boundaries == message_boundaries(messages)
        chunks == split_text(text)
    IN  [i \in 1..Len(chunks) |->
            LET chunk_content == Cut(text, chunks[i])
                chunk_start == find(text, chunk_content)
                chunk_end == chunk_start + Len(chunk_content)
            IN  [content |-> chunk_content,
                 message_ids |-> Overlapping(boundaries, chunk_start,
                                             chunk_end),
                 chunk_index |-> i - 1,
                 chunk_start |-> chunk_start,
                 chunk_end |-> chunk_end,
                 span |-> chunks[i]]]

ChunkChatConversation ==
    /\ chunker.op = "none"
    /\ \E messages \in Chats :
           chunker' = [op |-> "chat", documents |-> messages,
                       chunks |-> chunk_chat_conversation(messages)]
    /\ UNCHANGED chunkOther

NextChunk ==
    \/ UpdateChunks
    \/ ChunkChatConversation
    \/ ProcessUploadedPages

SpecChunk == InitChunk /\ [][NextChunk]_vars

\* C22: after an ingestion or a full replacement that produced n chunks the
\* chunk_index values are 0..n-1 in source order (page, then position in
\* the page), and a single page of 2200 characters, chunked with size 1000
\* and overlap 200, gives exactly 3 chunks.
C22_IndexesFollowSource ==
    chunker.op \in {"upload", "replace"} =>
        /\ \A i \in 1..Len(chunker.chunks) :
               chunker.chunks[i].chunk_index = i - 1
        /\ \A i, k \in 1..Len(chunker.chunks) :
               i < k =>
                   \/ chunker.chunks[i].page_index
                          < chunker.chunks[k].page_index
                   \/ /\ chunker.chunks[i].page_index
                             = chunker.chunks[k].page_index
                      /\ chunker.chunks[i].span[1] < chunker.chunks[k].span[1]
        /\ (/\ chunker.op = "upload"
            /\ Len(chunker.documents) = 1
            /\ Len(chunker.documents[1]) = ScenarioLength)
               => Len(chunker.chunks) = 3

\* C23: every chunk of chunk_chat_conversation records the offsets of the
\* span it was cut from and exactly the messages that overlap that span,
\* also when the same text occurs more than once.
C23_ChunkSpanIsActualSpan ==
    chunker.op = "chat" =>
        \A i \in 1..Len(chunker.chunks) :
            LET c == chunker.chunks[i]
            IN  /\ c.chunk_start = c.span[1]
                /\ c.chunk_end = c.span[2]
                /\ c.message_ids
                       = Overlapping(message_boundaries(chunker.documents),
                                     c.span[1], c.span[2])

(***************************************************************************)
(* EmbeddingService.similarity_search                                      *)
(*                                                                         *)
(* Distances and thresholds are in hundredths.  The cosine distance of a   *)
(* chunk to the query is computed by the store; a call draws it for every  *)
(* chunk from Distances.                                                   *)
(***************************************************************************)
\* Largest corpus and largest limit tried.
MaxChunks == 3
MaxLimit == 4
\* fallback_stmt ... .limit(3)
FallbackLimit == 3

Distances == {10, 42, 90}
Thresholds == {70}
SourceTypes == {"chat", "file"}
TagIds == {1, 2}
\* The documents of the corpus: a chat with two tags, a file with one tag
\* and a file with none.
SearchDocuments ==
    {[id |-> 1, source_type |-> "chat"], [id |-> 2, source_type |-> "file"],
     [id |-> 3, source_type |-> "file"]}
SearchDocumentTags ==
    {[document_id |-> 1, tag_id |-> 1], [document_id |-> 1, tag_id |-> 2],
     [document_id |-> 2, tag_id |-> 1]}

\* Mutant: the filters are not applied.
Candidates_unfiltered(q) ==
    document_chunks \X (IF q.tag_ids = {} THEN {0} ELSE q.tag_ids)

\* The rows of DocumentChunk JOIN Document [JOIN DocumentTag] that pass the
\* active filters (an empty or missing filter list is no filter).  A row
\* is <<chunk, tag_id>>, with tag_id 0 when DocumentTag is not joined; a
\* chunk gives one row per matching tag of its document.
Candidates(q) ==
    {row \in document_chunks \X (IF q.tag_ids = {} THEN {0} ELSE q.tag_ids) :
        \E d \in documents :
            /\ d.id = row[1].document_id
            /\ q.source_types # {} => d.source_type \in q.source_types
            /\ q.tag_ids # {} =>
                   [document_id |-> d.id, tag_id |-> row[2]] \in document_tags
            /\ q.document_ids # {} => d.id \in q.document_ids}

\* ORDER BY distance LIMIT k: the sequences the store may return (rows of
\* equal distance come in any order).
RECURSIVE OrderByLimit(_, _, _)
OrderByLimit(rows, distance, k) ==
    IF k = 0 \/ rows = {} THEN {<<>>}
    ELSE LET first == {r \in rows : \A o \in rows :
                           distance[r[1].id] <= distance[o[1].id]}
         IN  UNION {{<<r>> \o rest :
                       rest \in OrderByLimit(rows \ {r}, distance, k - 1)}
                    : r \in first}

\* chunk.search_distance = row.distance for every row.
Decorate(rows, distance) ==
    [i \in 1..Len(rows) |->
        [id |-> rows[i][1].id, document_id |-> rows[i][1].document_id,
         tag_id |-> rows[i][2], search_distance |-> distance[rows[i][1].id]]]

\* Mutant: no fallback query when the threshold query finds nothing.
similarity_search_nofallback(q) ==
    LET within == {r \in Candidates(q) : q.distance[r[1].id] < q.cutoff}
    IN  {[fallback |-> FALSE, chunks |-> Decorate(rows, q.distance)] :
            rows \in OrderByLimit(within, q.distance, q.limit)}

\* The possible results of a call: the threshold query (distance <
\* 1 - similarity_threshold, ORDER BY distance LIMIT limit) and, if it
\* returns no row, the same filtered query without the threshold predicate,
\* LIMIT 3.
similarity_search(q) ==
    LET within == {r \in Candidates(q) : q.distance[r[1].id] < q.cutoff}
        primary == OrderByLimit(within, q.distance, q.limit)
    IN  UNION {IF rows # <<>>
               THEN {[fallback |-> FALSE, chunks |-> Decorate(rows, q.distance)]}
               ELSE {[fallback |-> TRUE, chunks |-> Decorate(frows, q.distance)] :
                        frows \in OrderByLimit(Candidates(q), q.distance,
                                               FallbackLimit)}
               : rows \in primary}

\* The corpus of a search: up to MaxChunks chunks spread over the documents
\* (chunk ids are opaque, so the chunks are numbered document by document).
InitSearch ==
    /\ documents = SearchDocuments
    /\ document_tags = SearchDocumentTags
    /\ \E n \in 0..MaxChunks :
         \E owner \in [1..n -> {d.id : d \in SearchDocuments}] :
            /\ \A i \in 1..n, j \in 1..n : i < j => owner[i] <= owner[j]
            /\ document_chunks =
                {NewChunk(i, owner[i],
                          Cardinality({j \in 1..(i - 1) : owner[j] = owner[i]}),
                          ModelVector(EmbeddingModel)) : i \in 1..n}
    /\ search = NoSearch
    /\ ResizeIdle
    /\ CallIdle
    /\ CiteIdle
    /\ QUEUE = <<>>
    /\ SysIdle

\* A caller runs similarity_search(db, query, limit, similarity_threshold,
\* source_types, tag_ids, document_ids).
SimilaritySearch ==
    /\ ~search.called
    /\ \E limit \in 0..MaxLimit, threshold \in Thresholds,
          source_types \in {{}, {"chat"}, {"file"}},
          tag_ids \in {{}, {1}, {1, 2}},
          document_ids \in {{}, {1, 2}},
          distance \in [{c.id : c \in document_chunks} -> Distances] :
         LET q == [limit |-> limit, cutoff |-> 100 - threshold,
                   source_types |-> source_types, tag_ids |-> tag_ids,
                   document_ids |-> document_ids, distance |-> distance]
         IN  \E r \in similarity_search(q) :
                search' = [called |-> TRUE, limit |-> limit,
                           cutoff |-> q.cutoff, source_types |-> source_types,
                           tag_ids |-> tag_ids, document_ids |-> document_ids,
                           distance |-> distance, fallback |-> r.fallback,
                           chunks |-> r.chunks]
    /\ UNCHANGED <<storeVars, resizeVars, citeVars, QUEUE, sysVars, callVars>>

NextSearch == SimilaritySearch

SpecSearch == InitSearch /\ [][NextSearch]_vars

\* The chunks of the last call that pass its filters, and those of them
\* within the threshold.
SearchCandidates == {r[1] : r \in Candidates(search)}
WithinThreshold == {c \in SearchCandidates : search.distance[c.id] < search.cutoff}
Returned == {search.chunks[i] : i \in 1..Len(search.chunks)}

\* C1: similarity_search returns at most limit chunks, from the threshold
\* query and from the fallback query alike.
C1_AtMostLimit ==
    search.called => Len(search.chunks) <= search.limit

\* C2: if some chunk passes the filters and none of them is within the
\* threshold, the call returns between 1 and 3 chunks, no candidate left
\* out is closer than a returned one, and every returned chunk carries its
\* distance, which is >= 1 - similarity_threshold.
C2_Fallback ==
    (search.called /\ SearchCandidates # {} /\ WithinThreshold = {}) =>
        /\ Len(search.chunks) >= 1
        /\ Len(search.chunks) <= 3
        /\ \A c \in Returned :
              /\ c.search_distance = search.distance[c.id]
              /\ c.search_distance >= search.cutoff
              /\ \E o \in SearchCandidates : o.id = c.id
        /\ \A o \in SearchCandidates :
              (\A c \in Returned : c.id # o.id) =>
                  \A c \in Returned :
                      search.distance[o.id] >= c.search_distance

\* C2 witness: the fallback had to leave a candidate out.
C2_Witness ==
    /\ search.called
    /\ WithinThreshold = {}
    /\ Len(search.chunks) = 3
    /\ \E o \in SearchCandidates : \A c \in Returned : c.id # o.id

\* C3: if some chunk that passes the filters is within the threshold, every
\* returned chunk is within the threshold, whatever the limit.
C3_NoFallbackWhenWithin ==
    (search.called /\ WithinThreshold # {}) =>
        \A c \in Returned : c.search_distance < search.cutoff

\* C27: no chunk id occurs twice in the list a call returns, whatever the
\* filters are.
C27_NoChunkTwice ==
    search.called =>
        \A i \in 1..Len(search.chunks), j \in 1..Len(search.chunks) :
            search.chunks[i].id = search.chunks[j].id => i = j

\* C13: every returned chunk belongs to a document that passes every active
\* filter (source type among source_types, one of tag_ids attached, id
\* among document_ids), in the threshold branch and in the fallback branch.
C13_ReturnedMatchFilters ==
    search.called =>
        \A c \in Returned :
            \E d \in documents :
                /\ d.id = c.document_id
                /\ search.source_types # {} =>
                       d.source_type \in search.source_types
                /\ search.tag_ids # {} =>
                       \E t \in search.tag_ids :
                           [document_id |-> d.id, tag_id |-> t]
                               \in document_tags
                /\ search.document_ids # {} => d.id \in search.document_ids

\* C13 witness: a fallback result under a source type filter and a tag
\* filter, with a chunk of the corpus that the filters keep out.
C13_Witness ==
    /\ search.called
    /\ search.fallback
    /\ search.source_types # {}
    /\ search.tag_ids # {}
    /\ Returned # {}
    /\ \E c \in document_chunks : c \notin SearchCandidates


(***************************************************************************)
(* ChatService.generate_response: references, retrieval, context block,    *)
(* citation map and system message                                         *)
(*                                                                         *)
(* answer holds, for one request, the names the message refers to, what    *)
(* they resolved to, the retriever's result and branch, and what was built *)
(* from it.  The corpus is the one of the searches.                        *)
(***************************************************************************)
\* Table tags, and the titles of the documents.
TagNames == [t1 |-> 1, t2 |-> 2]
DocumentTitles == [d1 |-> 1, d2 |-> 2, d3 |-> 3]

\* What extract_tags_from_message and
\* extract_document_references_from_message find in the messages tried:
\* no reference, tags that exist, a tag that does not, documents that
\* exist, a document that does not.
MessageReferences ==
    {[tags |-> {}, docs |-> {}],
     [tags |-> {"t1"}, docs |-> {}],
     [tags |-> {"t1", "t2"}, docs |-> {}],
     [tags |-> {"nosuchtag"}, docs |-> {}],
     [tags |-> {}, docs |-> {"d1", "d2"}],
     [tags |-> {}, docs |-> {"nosuchdoc"}]}

\* select(Tag.id).where(Tag.name.in_(tag_names) | ...)
get_tag_ids_by_names(tag_names) ==
    {TagNames[n] : n \in tag_names \cap DOMAIN TagNames}

\* select(Document.id).where(or_(lower(title) == ..., ...))
get_document_ids_by_titles(document_titles) ==
    {DocumentTitles[n] : n \in document_titles \cap DOMAIN DocumentTitles}

TitleOf(document_id) ==
    CHOOSE n \in DOMAIN DocumentTitles : DocumentTitles[n] = document_id

\* metadata.get('page_number') of a chunk: the page recorded at ingestion,
\* here the chunk's number.
PageOf(chunk) == chunk.id

\* using_fallback = all(chunk.search_distance >= 1.0 - rag_threshold ...)
AllBeyondThreshold(relevant_chunks, cutoff) ==
    \A i \in 1..Len(relevant_chunks) :
        relevant_chunks[i].search_distance >= cutoff

\* Mutant: the loop numbers the chunks from 0.
CitationMapping_from0(relevant_chunks) ==
    [i \in 0..(Len(relevant_chunks) - 1) |->
        [chunk_id |-> relevant_chunks[i + 1].id,
         document_id |-> relevant_chunks[i + 1].document_id,
         document_title |-> TitleOf(relevant_chunks[i + 1].document_id),
         page_number |-> PageOf(relevant_chunks[i + 1])]]

\* for i, chunk in enumerate(relevant_chunks, 1):
\*     chunk_to_citation_mapping[i] = {...}
CitationMapping(relevant_chunks) ==
    [i \in 1..Len(relevant_chunks) |->
        [chunk_id |-> relevant_chunks[i].id,
         document_id |-> relevant_chunks[i].document_id,
         document_title |-> TitleOf(relevant_chunks[i].document_id),
         page_number |-> PageOf(relevant_chunks[i])]]

\* context_parts.append(f"{i}. {source_info}{confidence}\n{chunk.content}\n")
ContextParts(relevant_chunks) ==
    [i \in 1..Len(relevant_chunks) |->
        [number |-> i,
         source |-> TitleOf(relevant_chunks[i].document_id),
         chunk_id |-> relevant_chunks[i].id]]

\* The header of the context block and the sentence of the system message
\* that introduces it.
ContextHeader(low) ==
    IF low THEN "## Related Knowledge from Database (Less Relevant):"
    ELSE "## Relevant Knowledge from Database:"
ContextInstruction(low) ==
    IF low THEN "may not be highly relevant" ELSE "Use the following context if relevant"

\* generate_response(db, chat_id, user_message, use_rag=True, rag_limit,
\* rag_threshold) up to the system message.
BuildContext ==
    /\ answer.pc = "idle"
    /\ \E refs \in MessageReferences, rag_limit \in 0..MaxLimit,
          threshold \in Thresholds,
          distance \in [{c.id : c \in document_chunks} -> Distances] :
         LET tag_ids == get_tag_ids_by_names(refs.tags)
             document_ids == get_document_ids_by_titles(refs.docs)
             q == [limit |-> rag_limit, cutoff |-> 100 - threshold,
                   source_types |-> {}, tag_ids |-> tag_ids,
                   document_ids |-> document_ids, distance |-> distance]
         IN  \E r \in similarity_search(q) :
                LET low == AllBeyondThreshold(r.chunks, q.cutoff)
                IN  answer' =
                      [pc |-> "built",
                       tag_names |-> refs.tags,
                       document_titles |-> refs.docs,
                       rag_limit |-> rag_limit,
                       fallback |-> r.fallback,
                       relevant_chunks |-> r.chunks,
                       citation_mapping |-> CitationMapping(r.chunks),
                       context_parts |-> ContextParts(r.chunks),
                       header |-> IF r.chunks = <<>> THEN ""
                                  ELSE ContextHeader(low),
                       instruction |-> IF r.chunks = <<>> THEN ""
                                       ELSE ContextInstruction(low)]
    /\ UNCHANGED <<storeVars, resizeVars, citeVars, QUEUE, sysVars, search,
                   reembed, stream, retry, chunker>>

NextAnswer == BuildContext

SpecAnswer == InitSearch /\ [][NextAnswer]_vars

\* C24: the keys of the citation map are 1..N, and entry i holds the chunk
\* id, document id, document title and page number of the i-th retrieved
\* chunk, which is the chunk printed under number i in the context block.
C24_CitationMapFollowsRanking ==
    answer.pc = "built" =>
        LET N == Len(answer.relevant_chunks)
        IN  /\ DOMAIN answer.citation_mapping = 1..N
            /\ DOMAIN answer.context_parts = 1..N
            /\ \A i \in 1..N :
                  LET chunk == answer.relevant_chunks[i]
                      e == answer.citation_mapping[i]
                  IN  /\ e.chunk_id = chunk.id
                      /\ e.document_id = chunk.document_id
                      /\ \E d \in documents :
                            /\ d.id = chunk.document_id
                            /\ DocumentTitles[e.document_title] = d.id
                      /\ e.page_number = PageOf(chunk)
                      /\ answer.context_parts[i].number = i
                      /\ answer.context_parts[i].chunk_id = chunk.id

\* Three chunks of two documents were retrieved and numbered.
C24_Witness ==
    /\ answer.pc = "built"
    /\ Len(answer.relevant_chunks) = 3
    /\ answer.relevant_chunks[1].document_id #
           answer.relevant_chunks[3].document_id
    /\ answer.relevant_chunks[1].id # answer.relevant_chunks[2].id

\* C25: the low-confidence header and instruction are used exactly when the
\* chunks came from the retriever's fallback query, and header and
\* instruction carry the same framing.
C25_FramingFollowsFallback ==
    (answer.pc = "built" /\ answer.relevant_chunks # <<>>) =>
        /\ answer.header = ContextHeader(answer.fallback)
        /\ answer.instruction = ContextInstruction(answer.fallback)

ContextDocuments ==
    {answer.relevant_chunks[i].document_id :
        i \in 1..Len(answer.relevant_chunks)}

\* C30: with tag references in the message every chunk of the context
\* belongs to a document that carries a referenced tag, with document
\* references to a referenced document; if no referenced name exists, the
\* context is empty.
C30_ContextMatchesReferences ==
    answer.pc = "built" =>
        /\ answer.tag_names # {} =>
               \A d \in ContextDocuments :
                   \E n \in answer.tag_names \cap DOMAIN TagNames :
                       [document_id |-> d, tag_id |-> TagNames[n]]
                           \in document_tags
        /\ answer.document_titles # {} =>
               \A d \in ContextDocuments :
                   \E n \in answer.document_titles \cap DOMAIN DocumentTitles :
                       DocumentTitles[n] = d

(***************************************************************************)
(* The store, the ingestion handlers, the re-embed queue and its worker    *)
(*                                                                         *)
(* A handler works in a session: what it adds, flushes or deletes is       *)
(* pending (req) until commit puts it into the tables; rollback, or        *)
(* closing the session without commit, drops it.  Requests are served      *)
(* once startup_events has returned.                                       *)
(*                                                                         *)
(* SpecIngest follows one ingestion request at a time through its steps,   *)
(* with deletions and crashes beside it.  Spec takes a handler's           *)
(* transaction as one step, the commit, and follows the queue and the      *)
(* worker task step by step between the transactions.                      *)
(***************************************************************************)
\* Documents and chunks created per run, chunks per ingestion, queue
\* length that are tried.
MaxDocIds == 1
MaxChunkIds == 2
MaxPlan == 2
MaxQueue == 2

\* The columns the ORM class DocumentChunk maps; a commit writes these and
\* no other attribute set on a row object.
MappedColumns ==
    {"id", "document_id", "content", "chunk_index", "token_count",
     "embedding", "chunk_metadata", "summary", "created_at"}

\* Mutant: flush makes the flushed row visible to everyone (a commit).
AfterFlush_commits(table, row) == table \cup {row}

\* db.add(row); await db.flush(): the row is sent to the store inside the
\* open transaction; the committed table is as before.
AfterFlush(table, row) == table

\* row.embedding = emb; row.embedding_dim = len(emb); row.embedding_model =
\* settings.embedding_model_resolved; session.add(row); commit.
AfterRepairCommit(table, row, emb) ==
    (table \ {row}) \cup
    {[row EXCEPT
        !.embedding = emb,
        !.embedding_dim =
            IF "embedding_dim" \in MappedColumns THEN Len(emb) ELSE @,
        !.embedding_model =
            IF "embedding_model" \in MappedColumns THEN EmbeddingModel ELSE @]}

\* The handler has returned or raised; its session is closed.
Ended(handler, ok) ==
    [NoRequest EXCEPT !.last = [handler |-> handler, ok |-> ok]]

Begun(kind, doc, n, old) ==
    [kind |-> kind, doc |-> doc, plan |-> n, chunks |-> {}, old |-> old,
     last |-> NoOutcome]

Init ==
    /\ StoreIdle
    /\ QUEUE = <<>>
    /\ SysIdle
    /\ ResizeIdle
    /\ CallIdle
    /\ CiteIdle
    /\ SearchIdle

otherVars == <<resizeVars, citeVars, search, document_tags, callVars>>

\* ---- application startup (main.py)
\* startup_events: start_worker(loop) names a variable that main.py never
\* defines; the NameError is caught and logged, no task is created.
StartupEvents ==
    /\ ~started
    /\ started' = TRUE
    /\ UNCHANGED <<worker, QUEUE, documents, document_chunks, next_doc,
                   next_chunk, req, otherVars>>

\* start_worker(loop) called with the running loop: loop.create_task.
\* startup_events is its only caller in the repository and does not get
\* this far; the step stands for a caller that passes a loop, once per
\* process.
StartWorker ==
    /\ started
    /\ worker.pc = "none"
    /\ worker' = [pc |-> "get", priority_value |-> 0, item |-> NoItem,
                  emb |-> <<>>, log |-> ""]
    /\ UNCHANGED <<started, QUEUE, documents, document_chunks, next_doc,
                   next_chunk, req, otherVars>>

\* ---- file upload (process_document_background, process_uploaded_document)
\* _load_document returned nothing: ValueError before anything is added.
UploadNoContent ==
    /\ started
    /\ req.kind = "idle"
    /\ req' = Ended("upload", FALSE)
    /\ UNCHANGED <<documents, document_chunks, next_doc, next_chunk,
                   worker, started, QUEUE, otherVars>>

\* db.add(document); await db.flush(); the pages split into n chunks.
UploadBegin ==
    /\ started
    /\ req.kind = "idle"
    /\ next_doc <= MaxDocIds
    /\ \E n \in 0..MaxPlan :
         LET doc == [id |-> next_doc, source_type |-> "file"]
         IN  /\ req' = Begun("upload", doc, n, {})
             /\ documents' = AfterFlush(documents, doc)
    /\ next_doc' = next_doc + 1
    /\ UNCHANGED <<document_chunks, next_chunk, worker, started, QUEUE,
                   otherVars>>

\* ---- save edited chat (save_edited_chat_to_knowledge)
\* The content is split into n chunks; nothing is embedded yet.
SaveEditedBegin ==
    /\ started
    /\ req.kind = "idle"
    /\ next_doc <= MaxDocIds
    /\ \E n \in 0..MaxPlan :
         req' = Begun("edited", [id |-> next_doc, source_type |-> "chat"],
                      n, {})
    /\ next_doc' = next_doc + 1
    /\ UNCHANGED <<documents, document_chunks, next_chunk, worker, started,
                   QUEUE, otherVars>>

\* embed_texts(chunks) answers for every chunk; the document is added and
\* flushed, the chunks are added to the session.
SaveEditedEmbedAll ==
    /\ req.kind = "edited"
    /\ req.plan > 0
    /\ req.chunks = {}
    /\ next_chunk + req.plan - 1 <= MaxChunkIds
    /\ \E by \in [1..req.plan -> Models] :
         req' = [req EXCEPT !.chunks =
                    {NewChunk(next_chunk + i - 1, req.doc.id, i - 1,
                              ModelVector(by[i])) : i \in 1..req.plan}]
    /\ next_chunk' = next_chunk + req.plan
    /\ documents' = AfterFlush(documents, req.doc)
    /\ UNCHANGED <<document_chunks, next_doc, worker, started, QUEUE,
                   otherVars>>

\* ---- save chat (save_chat_to_knowledge)
\* ChatService.get_chat(db, chat_id, None) passes one argument too many:
\* TypeError before the handler touches the session.
SaveChatToKnowledge ==
    /\ started
    /\ req.kind = "idle"
    /\ req' = Ended("save_chat", FALSE)
    /\ UNCHANGED <<documents, document_chunks, next_doc, next_chunk,
                   worker, started, QUEUE, otherVars>>

\* ---- full chunk replacement (update_document_chunks)
\* The document is found; DELETE of all its chunks is executed in the
\* transaction; the payload holds n chunks.
ReplaceBegin ==
    /\ started
    /\ req.kind = "idle"
    /\ \E doc \in documents, n \in 0..MaxPlan :
         req' = Begun("replace", doc, n,
                      {c.id : c \in {x \in document_chunks :
                                         x.document_id = doc.id}})
    /\ UNCHANGED <<documents, document_chunks, next_doc, next_chunk,
                   worker, started, QUEUE, otherVars>>

\* The document does not exist: HTTPException, rollback.
ReplaceNotFound ==
    /\ started
    /\ req.kind = "idle"
    /\ req' = Ended("replace", FALSE)
    /\ UNCHANGED <<documents, document_chunks, next_doc, next_chunk,
                   worker, started, QUEUE, otherVars>>

\* ---- steps shared by the ingestion handlers
\* embed_text(chunk_content) answers (by the embedding model, or by the
\* generation model it falls back to); the chunk object is created.
IngestEmbed ==
    /\ req.kind \in {"upload", "replace"}
    /\ Cardinality(req.chunks) < req.plan
    /\ next_chunk <= MaxChunkIds
    /\ \E m \in Models :
         req' = [req EXCEPT !.chunks = @ \cup
                    {NewChunk(next_chunk, req.doc.id, Cardinality(req.chunks),
                              ModelVector(m))}]
    /\ next_chunk' = next_chunk + 1
    /\ UNCHANGED <<documents, document_chunks, next_doc, worker, started,
                   QUEUE, otherVars>>

\* An embedding call raises: the handler's except branch rolls back (the
\* upload task closes its session without commit).
IngestEmbedFails ==
    /\ req.kind \in {"upload", "replace", "edited"}
    /\ Cardinality(req.chunks) < req.plan
    /\ req' = Ended(req.kind, FALSE)
    /\ UNCHANGED <<documents, document_chunks, next_doc, next_chunk, worker,
                   started, QUEUE, otherVars>>

\* await db.commit() succeeds: the document, the deletion of the old chunks
\* and the new chunks become visible together.
IngestCommit ==
    /\ req.kind \in {"upload", "replace", "edited"}
    /\ Cardinality(req.chunks) = req.plan
    /\ documents' = documents \cup {req.doc}
    /\ document_chunks' =
           {c \in document_chunks : c.id \notin req.old} \cup req.chunks
    /\ req' = Ended(req.kind, TRUE)
    /\ UNCHANGED <<next_doc, next_chunk, worker, started, QUEUE, otherVars>>

\* await db.flush() or await db.commit() raises: rollback.
IngestCommitFails ==
    /\ req.kind \in {"upload", "replace", "edited"}
    /\ Cardinality(req.chunks) = req.plan
    /\ req' = Ended(req.kind, FALSE)
    /\ UNCHANGED <<documents, document_chunks, next_doc, next_chunk, worker,
                   started, QUEUE, otherVars>>

\* ---- delete_document: the document and, by cascade, its chunks.  The
\* DELETE waits while a replacement holds the document's chunk rows.
DeleteDocument ==
    /\ started
    /\ \E doc \in documents :
         /\ ~(req.kind = "replace" /\ req.doc.id = doc.id)
         /\ documents' = documents \ {doc}
         /\ document_chunks' =
                {c \in document_chunks : c.document_id # doc.id}
    /\ UNCHANGED <<req, next_doc, next_chunk, worker, started, QUEUE, otherVars>>

\* ---- the re-embed queue (reembed_queue.py)
\* The content of a chunk, which the rows of the model leave out.
ChunkText == "t"

\* enqueue_reembed(doc_id, text, priority) for a chunk of the store.
EnqueueReembed ==
    /\ started
    /\ Len(QUEUE) < MaxQueue
    /\ \E c \in document_chunks, priority \in BOOLEAN :
         QUEUE' = enqueue_reembed(QUEUE, c.id, ChunkText, priority)
    /\ UNCHANGED <<documents, document_chunks, next_doc, next_chunk, req,
                   worker, started, otherVars>>

\* Mutant: the queue hands out its items in no particular order.
ItemBefore_unordered(a, b) == TRUE

\* Order of the queue's tuples (priority_value, (doc_id, text)).
ItemBefore(a, b) ==
    \/ a.priority_value < b.priority_value
    \/ a.priority_value = b.priority_value /\ a.doc_id <= b.doc_id

RemoveAt(q, i) == SubSeq(q, 1, i - 1) \o SubSeq(q, i + 1, Len(q))

\* The worker task at await QUEUE.get(), after _process_item logged log
\* ("Re-embedded", "not found", "Failed to reembed") about the item before.
Waiting(log) ==
    [pc |-> "get", priority_value |-> 0, item |-> NoItem, emb |-> <<>>,
     log |-> log]

\* Mutant: the failed commit leaves a row with the new embedding.
AfterFailedCommit_upsert(table, id, emb) ==
    {c \in table : c.id # id} \cup {NewChunk(id, 0, 0, emb)}

\* The session of _process_item is left by an exception: what it had
\* pending is rolled back.
AfterFailedCommit(table, id, emb) == table

\* priority_item = await QUEUE.get(): the smallest tuple; _, item = it.
WorkerGet ==
    /\ worker.pc = "get"
    /\ \E i \in 1..Len(QUEUE) :
         /\ \A j \in 1..Len(QUEUE) : ItemBefore(QUEUE[i], QUEUE[j])
         /\ QUEUE' = RemoveAt(QUEUE, i)
         /\ worker' = [pc |-> "embed",
                       priority_value |-> QUEUE[i].priority_value,
                       item |-> QUEUE[i].doc_id, emb |-> <<>>, log |-> ""]
    /\ UNCHANGED <<documents, document_chunks, next_doc, next_chunk, req,
                   started, otherVars>>

\* emb = await loop.run_in_executor(None, svc.embed, text) answers.
WorkerEmbed ==
    /\ worker.pc = "embed"
    /\ \E m \in Models : worker' = [worker EXCEPT !.pc = "load",
                                                  !.emb = ModelVector(m)]
    /\ UNCHANGED <<documents, document_chunks, next_doc, next_chunk, req,
                   started, QUEUE, otherVars>>

\* svc.embed raises: logged, the item is dropped, QUEUE.task_done().
WorkerEmbedFails ==
    /\ worker.pc = "embed"
    /\ worker' = Waiting("Failed to reembed")
    /\ UNCHANGED <<documents, document_chunks, next_doc, next_chunk, req,
                   started, QUEUE, otherVars>>

\* row = await session.get(DocumentChunk, doc_id): found.
WorkerLoad ==
    /\ worker.pc = "load"
    /\ \E c \in document_chunks : c.id = worker.item
    /\ worker' = [worker EXCEPT !.pc = "commit"]
    /\ UNCHANGED <<documents, document_chunks, next_doc, next_chunk, req,
                   started, QUEUE, otherVars>>

\* if not row: return.
WorkerLoadMissing ==
    /\ worker.pc = "load"
    /\ ~\E c \in document_chunks : c.id = worker.item
    /\ worker' = Waiting("not found")
    /\ UNCHANGED <<documents, document_chunks, next_doc, next_chunk, req,
                   started, QUEUE, otherVars>>

\* The row is set and committed.
WorkerCommit ==
    /\ worker.pc = "commit"
    /\ \E row \in document_chunks :
         /\ row.id = worker.item
         /\ document_chunks' =
                AfterRepairCommit(document_chunks, row, worker.emb)
    /\ worker' = Waiting("Re-embedded")
    /\ UNCHANGED <<documents, next_doc, next_chunk, req, started, QUEUE,
                   otherVars>>

\* The commit raises (the row is gone, or the store fails): logged.
WorkerCommitFails ==
    /\ worker.pc = "commit"
    /\ worker' = Waiting("Failed to reembed")
    /\ document_chunks' =
           AfterFailedCommit(document_chunks, worker.item, worker.emb)
    /\ UNCHANGED <<documents, next_doc, next_chunk, req,
                   started, QUEUE, otherVars>>

\* ---- the process dies and is started again: the queue, the tasks and
\* the open sessions are gone; the store is kept.
Crash ==
    /\ QUEUE' = <<>>
    /\ worker' = NoWorker
    /\ req' = NoRequest
    /\ started' = FALSE
    /\ UNCHANGED <<documents, document_chunks, next_doc, next_chunk, otherVars>>

\* ---- a handler's whole transaction, as the other sessions see it
\* The chunks of one ingestion: ids from first on, indexes in order, each
\* embedded by the model that answered.
\* Mutant: the new chunks take the ids 1, 2, ... again.
NewChunks_reused(first, document_id, by) ==
    {NewChunk(i, document_id, i - 1, ModelVector(by[i])) : i \in 1..Len(by)}

\* The chunk rows a handler commits for a document: fresh ids, chunk_index
\* i for the i-th chunk, the vector the backend answered with.
NewChunks(first, document_id, by) ==
    {NewChunk(first + i - 1, document_id, i - 1, ModelVector(by[i])) :
        i \in 1..Len(by)}

ModelSeqs == UNION {[1..n -> Models] : n \in 0..MaxPlan}

\* process_uploaded_document commits (save_edited_chat_to_knowledge commits
\* the same rows under source_type "chat").
ProcessUploadedDocument ==
    /\ started
    /\ next_doc <= MaxDocIds
    /\ \E by \in ModelSeqs :
         /\ next_chunk + Len(by) - 1 <= MaxChunkIds
         /\ documents' =
                documents \cup {[id |-> next_doc, source_type |-> "file"]}
         /\ document_chunks' =
                document_chunks \cup NewChunks(next_chunk, next_doc, by)
         /\ next_chunk' = next_chunk + Len(by)
    /\ next_doc' = next_doc + 1
    /\ UNCHANGED <<req, worker, started, QUEUE, otherVars>>

\* update_document_chunks commits.
UpdateDocumentChunks ==
    /\ started
    /\ \E doc \in documents, by \in ModelSeqs :
         /\ next_chunk + Len(by) - 1 <= MaxChunkIds
         /\ document_chunks' =
                {c \in document_chunks : c.document_id # doc.id}
                \cup NewChunks(next_chunk, doc.id, by)
         /\ next_chunk' = next_chunk + Len(by)
    /\ UNCHANGED <<documents, next_doc, req, worker, started, QUEUE, otherVars>>

NextIngest ==
    \/ StartupEvents
    \/ UploadNoContent \/ UploadBegin
    \/ SaveEditedBegin \/ SaveEditedEmbedAll \/ SaveChatToKnowledge
    \/ ReplaceBegin \/ ReplaceNotFound
    \/ IngestEmbed \/ IngestEmbedFails \/ IngestCommit \/ IngestCommitFails
    \/ DeleteDocument
    \/ Crash

SpecIngest == Init /\ [][NextIngest]_vars

Next ==
    \/ StartupEvents \/ StartWorker
    \/ ProcessUploadedDocument \/ UpdateDocumentChunks \/ DeleteDocument
    \/ EnqueueReembed
    \/ WorkerGet \/ WorkerEmbed \/ WorkerEmbedFails
    \/ WorkerLoad \/ WorkerLoadMissing \/ WorkerCommit \/ WorkerCommitFails
    \/ Crash

Spec == Init /\ [][Next]_vars

\* A step of the worker task: QUEUE.get() with an item waiting, or the
\* return (or the exception) of the embedding call, the lookup, the commit.
WorkerStep ==
    \/ WorkerGet
    \/ WorkerEmbed
    \/ WorkerEmbedFails
    \/ WorkerLoad
    \/ WorkerLoadMissing
    \/ WorkerCommit
    \/ WorkerCommitFails

\* The event loop resumes the worker task whenever it can go on, and every
\* embedding call and commit it awaits returns or fails.
SpecFair == Spec /\ WF_vars(WorkerStep)

(***************************************************************************)
(* Properties of the store and the process                                 *)
(***************************************************************************)
\* The model whose answer a stored embedding is.
ProducerOf(emb) == CHOOSE m \in Models : ModelVector(m) = emb

\* C7: every committed chunk has embedding_dim equal to the length of its
\* embedding and embedding_model naming the model that produced it, after
\* ingestion, after replacement and after every repair.
C7_DimAndModelRecorded ==
    \A c \in document_chunks :
        /\ c.embedding_dim = Len(c.embedding)
        /\ c.embedding_model = ProducerOf(c.embedding)

ChunkIds(rows) == {c.id : c \in rows}

\* While an ingestion is in flight nothing it has written is committed, and
\* the chunks a replacement is about to delete are all still there.
NothingVisibleBeforeCommit ==
    req.kind # "idle" =>
        /\ ChunkIds(req.chunks) \cap ChunkIds(document_chunks) = {}
        /\ req.kind \in {"upload", "edited"} =>
               \A d \in documents : d.id # req.doc.id
        /\ req.old \subseteq ChunkIds(document_chunks)

\* A step that ends an ingestion either fails and leaves the tables as they
\* were, or succeeds and makes the document and all its planned chunks
\* visible at once (the replaced chunks going in the same step); a handler
\* that fails before it begins an ingestion leaves the tables as they were.
AllOrNothingStep ==
    /\ (req.kind # "idle" /\ req'.kind = "idle") =>
           \/ /\ ~req'.last.ok
              /\ UNCHANGED <<documents, document_chunks>>
           \/ /\ req'.last.ok
              /\ Cardinality(req.chunks) = req.plan
              /\ documents' = documents \cup {req.doc}
              /\ document_chunks' =
                     {c \in document_chunks : c.id \notin req.old}
                     \cup req.chunks
    /\ (req.kind = "idle" /\ req'.kind = "idle" /\ req' # req) =>
           UNCHANGED <<documents, document_chunks>>

\* C8: ingestion is all-or-nothing on every path: a failure partway commits
\* no document row and no chunk row and, for a replacement, leaves the
\* previous chunk set in place; success commits the document and all of its
\* chunks in one step.
C8_AllOrNothing == []NothingVisibleBeforeCommit /\ [][AllOrNothingStep]_vars

\* A replacement drew the second chunk id and failed: the document still has
\* the chunk it was uploaded with, and only that one.
C8_Witness ==
    /\ req.kind = "idle"
    /\ req.last = [handler |-> "replace", ok |-> FALSE]
    /\ next_chunk = 3
    /\ ChunkIds(document_chunks) = {1}
    /\ \E d \in documents : d.id = 1

\* C9: once startup has completed, the reconciler worker task is running.
C9_WorkerRunningAfterStartup == started => worker.pc # "none"

\* C10: a crash loses at most the in-flight item: the committed repairs stay
\* in the store and every item still on the queue is kept.
C10_CrashKeepsQueuedItems ==
    [][(started /\ ~started') =>
           /\ UNCHANGED <<documents, document_chunks>>
           /\ QUEUE' = QUEUE]_vars

\* C17: when the embedding call or the commit fails for an item, the worker
\* logs the failure, does not put the item back on the queue, leaves the
\* store (so the chunk's embedding) as it was and is back at QUEUE.get().
C17_FailureDropsItem ==
    [][(/\ worker.pc \in {"embed", "commit"}
        /\ worker'.log = "Failed to reembed")
           => /\ UNCHANGED <<documents, document_chunks>>
              /\ QUEUE' = QUEUE
              /\ worker'.pc = "get"]_vars

\* A failure has been logged and the following item is ready to be taken.
C17_Witness ==
    /\ worker.pc = "get"
    /\ worker.log = "Failed to reembed"
    /\ QUEUE # <<>>
    /\ document_chunks # {}

ChunkMissing(id) == ~\E c \in document_chunks : c.id = id

\* C18: when the item's chunk is no longer in the store (looked up or
\* committed after its deletion), ending the item changes nothing in the
\* store or the queue and leaves the worker at QUEUE.get().
C18_MissingChunkIsNoOp ==
    [][(/\ worker.pc \in {"load", "commit"}
        /\ ChunkMissing(worker.item)
        /\ worker'.pc # worker.pc
        /\ ~(started /\ ~started'))
           => /\ UNCHANGED <<documents, document_chunks>>
              /\ QUEUE' = QUEUE
              /\ worker'.pc = "get"]_vars

\* The worker found no row for its item and waits for the next one.
C18_Witness ==
    /\ worker.pc = "get"
    /\ worker.log = "not found"
    /\ QUEUE # <<>>

\* QUEUE lists its items in the order they were put: the oldest waiting
\* item is the first, and it leaves the queue.
OldestDequeued == QUEUE # <<>> /\ QUEUE' = Tail(QUEUE)

\* C19: while the worker runs and its calls return or fail, every item put
\* on the queue is eventually taken off it: the queue is empty again and
\* again, or its oldest item is dequeued again and again.
C19_EveryItemDequeued ==
    \/ <>[](worker.pc = "none")
    \/ []<>(QUEUE = <<>>)
    \/ []<><<OldestDequeued>>_vars

HighPriorityAt(q) == {i \in 1..Len(q) : q[i].priority_value = 0}

\* C20: whenever a high-priority item is on the queue, the item the worker
\* dequeues is a high-priority one.
C20_HighPriorityFirst ==
    [][(/\ Len(QUEUE') < Len(QUEUE)
        /\ ~(started /\ ~started')
        /\ HighPriorityAt(QUEUE) # {})
           => \E i \in HighPriorityAt(QUEUE) :
                  /\ QUEUE' = RemoveAt(QUEUE, i)
                  /\ worker'.pc = "embed"
                  /\ worker'.priority_value = 0
                  /\ worker'.item = QUEUE[i].doc_id]_vars

\* A high-priority item is being processed while a low-priority item for a
\* chunk with a smaller id is still queued.
C20_Witness ==
    /\ worker.pc = "embed"
    /\ worker.priority_value = 0
    /\ \E i \in 1..Len(QUEUE) :
         /\ QUEUE[i].priority_value = 1
         /\ QUEUE[i].doc_id < worker.item

\* C21: a step that leaves a chunk id in the store with another row is the
\* worker's committed repair of that chunk, and it changes nothing but the
\* embedding columns; every other operation only creates and deletes rows.
C21_OnlyRepairChangesEmbedding ==
    [][\A c \in document_chunks, c2 \in document_chunks' :
           (c2.id = c.id /\ c2 # c) =>
               /\ worker.pc = "commit"
               /\ worker.item = c.id
               /\ worker'.log = "Re-embedded"
               /\ c2.document_id = c.document_id
               /\ c2.chunk_index = c.chunk_index
               /\ c2.embedding = worker.emb]_vars

\* A repair has been committed after a replacement gave the document a
\* chunk under a new id, and the repaired vector is not the one the
\* generation model would give.
C21_Witness ==
    /\ worker.log = "Re-embedded"
    /\ next_chunk > 2
    /\ \E c \in document_chunks :
         c.id > 1 /\ c.embedding = ModelVector(EmbeddingModel)

====
